---- MODULE Spec2Model ----
(***************************************************************************)
(* Resource-governed caching layer of blocket-tradera-mcp:                 *)
(*   MemoryCache (LRU, TTL), FileCache (persistent, TTL), CacheManager     *)
(*   (two tiers, namespaces, getOrFetch), RateLimiter (sliding window)     *)
(*   and the TraderaClient daily API budget.                               *)
(* Time is the value of Date.now() in milliseconds.  JavaScript runs one   *)
(* task at a time, so every action is one synchronous stretch of code      *)
(* between two awaits.                                                     *)
(***************************************************************************)
EXTENDS Bags, FiniteSets, Integers, Sequences, TLC

VARIABLES
    now,          \* Date.now()
    cache,        \* MemoryCache.cache : Map<string, CacheEntry>, in insertion order
    hits,         \* MemoryCache.hits
    misses,       \* MemoryCache.misses
    files,        \* FileCache: the *.json files of cacheDir, by cache key
    initialized,  \* FileCache.initialized
    budget,       \* TraderaClient.budget
    requests,     \* RateLimiter.requests
    tasks,        \* the asynchronous calls in flight
    transports,   \* http-server transports : Map<sessionId, {transport, lastActivity}>
    ret,          \* outcome of the operation that completed last
    hist          \* history of the run (observation only, never read by the code)

vars == <<now, cache, hits, misses, files, initialized, budget, requests, tasks,
          transports, ret, hist>>

(***************************************************************************)
(* Bounds of the model                                                     *)
(***************************************************************************)
MaxCount == 2          \* MemoryCache.get calls counted between two clear()
MemMaxTicks == 2       \* clock ticks in the MemoryCache and tier runs
MaxCalls == 7          \* throttle() calls in a RateLimiter run
LimMaxTicks == 4       \* clock ticks in a RateLimiter run
MaxTasks == 2          \* TraderaClient operations in flight at once
TraMaxTicks == 2       \* clock ticks (of one day) in a TraderaClient run

(***************************************************************************)
(* JavaScript values                                                       *)
(***************************************************************************)
null == "null"
undefined == -1        \* an optional numeric argument that was not passed
Infinity == 2147483647

Truthy_Never(s) == FALSE
Truthy(s) == s # null /\ s # ""
Coalesce(x, d) == IF x = undefined THEN d ELSE x

Max(a, b) == IF a > b THEN a ELSE b

(***************************************************************************)
(* Map<string, CacheEntry>: a sequence of entries, insertion ordered       *)
(***************************************************************************)
MapKeys(m) == {m[i].key : i \in 1..Len(m)}
MapHas(m, k) == k \in MapKeys(m)
MapIndex(m, k) == CHOOSE i \in 1..Len(m) : m[i].key = k
MapGet(m, k) == m[MapIndex(m, k)]
MapSet(m, k, e) ==
    IF MapHas(m, k) THEN [m EXCEPT ![MapIndex(m, k)] = e] ELSE Append(m, e)
MapDelete(m, k) == SelectSeq(m, LAMBDA e : e.key # k)

(***************************************************************************)
(* MemoryCache                                                             *)
(***************************************************************************)
maxSize == 2           \* MemoryCacheOptions.maxSize of the instance under test
MemDefaultTtl == 5 * 60 * 1000

Entry(k, v, exp, acc) == [key |-> k, data |-> v, expiresAt |-> exp, accessedAt |-> acc]

\* the loop of evictLRU: the first entry with the strictly smallest accessedAt
RECURSIVE ScanOldest(_, _, _, _)
ScanOldest(m, i, oldestKey, oldestTime) ==
    IF i > Len(m) THEN oldestKey
    ELSE IF m[i].accessedAt < oldestTime
         THEN ScanOldest(m, i + 1, m[i].key, m[i].accessedAt)
         ELSE ScanOldest(m, i + 1, oldestKey, oldestTime)

evictLRU(m) ==
    LET oldestKey == ScanOldest(m, 1, null, Infinity)
    IN  IF Truthy(oldestKey) THEN MapDelete(m, oldestKey) ELSE m

MemSetMap_EvictsAtCapacity(m, k, v, ttlMs, t) ==
    LET m1 == IF Len(m) >= maxSize THEN evictLRU(m) ELSE m
        ttl == Coalesce(ttlMs, MemDefaultTtl)
    IN  MapSet(m1, k, Entry(k, v, t + ttl, t))
MemSetMap(m, k, v, ttlMs, t) ==
    LET m1 == IF Len(m) >= maxSize /\ ~MapHas(m, k) THEN evictLRU(m) ELSE m
        ttl == Coalesce(ttlMs, MemDefaultTtl)
    IN  MapSet(m1, k, Entry(k, v, t + ttl, t))

\* MemoryCache.get as a function of the map: the value returned and the map left
MemGetExpired(m, k, t) == MapHas(m, k) /\ t > MapGet(m, k).expiresAt
MemGetHit_ExpiredAtBoundary(m, k, t) == MapHas(m, k) /\ ~(t >= MapGet(m, k).expiresAt)
MemGetHit(m, k, t) == MapHas(m, k) /\ ~(t > MapGet(m, k).expiresAt)
MemGetValue(m, k, t) == IF MemGetHit(m, k, t) THEN MapGet(m, k).data ELSE null
MemGetMap(m, k, t) ==
    IF ~MapHas(m, k) THEN m
    ELSE IF t > MapGet(m, k).expiresAt THEN MapDelete(m, k)
    ELSE MapSet(m, k, [MapGet(m, k) EXCEPT !.accessedAt = t])

MemHasValue(m, k, t) == MapHas(m, k) /\ ~(t > MapGet(m, k).expiresAt)
MemHasMap(m, k, t) ==
    IF MapHas(m, k) /\ t > MapGet(m, k).expiresAt THEN MapDelete(m, k) ELSE m

MemCleanupMap(m, t) == SelectSeq(m, LAMBDA e : ~(t > e.expiresAt))

\* MemoryCache.getAge
FloorDiv(a, b) == a \div b
MemGetAge(m, k, t) ==
    IF ~MapHas(m, k) THEN undefined
    ELSE LET e == MapGet(m, k)
             ttlMs == e.expiresAt - e.accessedAt
             ageMs == t - (e.expiresAt - ttlMs)
         IN  FloorDiv(ageMs, 1000)

(***************************************************************************)
(* Outcome records and the history                                         *)
(***************************************************************************)
\* num: a numeric result (count removed, ageSeconds); cached, fetched and io are
\* set by the CacheManager operations (io: the file system calls succeeded)
RetAll(op, k, v, n, threw, cached, fetched, io) ==
    [op |-> op, key |-> k, data |-> v, num |-> n, threw |-> threw,
     cached |-> cached, fetched |-> fetched, io |-> io]
Ret(op, k, v, n) == RetAll(op, k, v, n, FALSE, FALSE, FALSE, TRUE)
Thrown(op, k) == RetAll(op, k, null, 0, TRUE, FALSE, FALSE, FALSE)
NoRet == Ret("none", "", null, 0)

\* what set() was asked to store, kept while the key stays in the tier
SetRec(v, t, ttl) == [val |-> v, at |-> t, ttl |-> ttl, stored |-> TRUE]
SetRecIO(v, t, ttl, ok) == [val |-> v, at |-> t, ttl |-> ttl, stored |-> ok]
KeepLog(log, keys) == [k \in (DOMAIN log) \cap keys |-> log[k]]
PutLog(log, keys, k, rec) ==
    [x \in ((DOMAIN log) \cap keys) \cup {k} |-> IF x = k THEN rec ELSE log[x]]

\* written: for a cache key and a value, the latest t + ttl of its CacheManager writes
\* calls: the timestamps of all requests the RateLimiter recorded
\* dispatched: the Tradera calls sent out since the budget was last reset
\* origin: for a cache key whose memory entry a CacheManager get, set or
\*   getOrFetch call stored, the time its value was first written
\* issued: the number of session ids generated
\* handled: for a session, the time its last POST or GET was taken up
\* closed: the sessions whose transport was closed
\* removed: the sessions deleted from the transports map
NoHist == [memSet |-> <<>>, fileSet |-> <<>>, written |-> <<>>, calls |-> <<>>,
           dispatched |-> 0, origin |-> <<>>,
           issued |-> 0, handled |-> <<>>, closed |-> {}, removed |-> {}]

(***************************************************************************)
(* Initial state: the objects as their constructors leave them             *)
(***************************************************************************)
DAY == 24 * 60 * 60 * 1000
dailyLimit == 2        \* TraderaApiBudget.dailyLimit (100 in production), scaled

\* getNextResetTime: the next midnight UTC after t
getNextResetTime(t) == ((t \div DAY) + 1) * DAY

InitBudget(t) ==
    [dailyLimit |-> dailyLimit, used |-> 0,
     resetTime |-> getNextResetTime(t), remaining |-> dailyLimit]

Init ==
    /\ now = 0
    /\ cache = <<>>
    /\ hits = 0
    /\ misses = 0
    /\ files = <<>>
    /\ initialized = FALSE
    /\ budget = InitBudget(0)
    /\ requests = <<>>
    /\ tasks = <<>>
    /\ transports = <<>>
    /\ ret = NoRet
    /\ hist = NoHist

(***************************************************************************)
(* MemoryCache operations                                                  *)
(***************************************************************************)
MemUnchanged == UNCHANGED <<files, initialized, budget, requests, tasks, transports>>

MemSet(k, v, ttlMs) ==
    /\ cache' = MemSetMap(cache, k, v, ttlMs, now)
    /\ ret' = NoRet
    /\ hist' = [hist EXCEPT !.memSet =
                  PutLog(@, MapKeys(cache'), k,
                         SetRec(v, now, Coalesce(ttlMs, MemDefaultTtl)))]
    /\ UNCHANGED <<now, hits, misses>>
    /\ MemUnchanged

MemGet_CountsBoth(k) ==
    /\ hits + misses < MaxCount
    /\ cache' = MemGetMap(cache, k, now)
    /\ hits' = hits + 1
    /\ misses' = misses + 1
    /\ ret' = Ret("mem.get", k, MemGetValue(cache, k, now), 0)
    /\ hist' = [hist EXCEPT !.memSet = KeepLog(@, MapKeys(cache'))]
    /\ UNCHANGED now
    /\ MemUnchanged

MemGet(k) ==
    /\ hits + misses < MaxCount
    /\ cache' = MemGetMap(cache, k, now)
    /\ hits' = IF MemGetHit(cache, k, now) THEN hits + 1 ELSE hits
    /\ misses' = IF MemGetHit(cache, k, now) THEN misses ELSE misses + 1
    /\ ret' = Ret("mem.get", k, MemGetValue(cache, k, now), 0)
    /\ hist' = [hist EXCEPT !.memSet = KeepLog(@, MapKeys(cache'))]
    /\ UNCHANGED now
    /\ MemUnchanged

MemHas(k) ==
    /\ cache' = MemHasMap(cache, k, now)
    /\ ret' = Ret("mem.has", k, IF MemHasValue(cache, k, now) THEN "true" ELSE "false", 0)
    /\ hist' = [hist EXCEPT !.memSet = KeepLog(@, MapKeys(cache'))]
    /\ UNCHANGED <<now, hits, misses>>
    /\ MemUnchanged

MemDelete(k) ==
    /\ cache' = MapDelete(cache, k)
    /\ ret' = Ret("mem.delete", k, IF MapHas(cache, k) THEN "true" ELSE "false", 0)
    /\ hist' = [hist EXCEPT !.memSet = KeepLog(@, MapKeys(cache'))]
    /\ UNCHANGED <<now, hits, misses>>
    /\ MemUnchanged

MemClear ==
    /\ cache' = <<>>
    /\ hits' = 0
    /\ misses' = 0
    /\ ret' = NoRet
    /\ hist' = [hist EXCEPT !.memSet = <<>>]
    /\ UNCHANGED now
    /\ MemUnchanged

MemCleanup ==
    /\ cache' = MemCleanupMap(cache, now)
    /\ ret' = Ret("mem.cleanup", "", null, Len(cache) - Len(cache'))
    /\ hist' = [hist EXCEPT !.memSet = KeepLog(@, MapKeys(cache'))]
    /\ UNCHANGED <<now, hits, misses>>
    /\ MemUnchanged

(***************************************************************************)
(* FileCache.  A file is addressed by the md5 of its key; the model keeps   *)
(* the files by key.  Every call of the file system can fail.              *)
(***************************************************************************)
FileDefaultTtl == 30 * 60 * 1000

FileEntry(v, exp, cr) == [kind |-> "entry", data |-> v, expiresAt |-> exp, createdAt |-> cr]
CorruptFile == [kind |-> "corrupt", data |-> null, expiresAt |-> 0, createdAt |-> 0]

FilePut(fs, k, f) == [x \in (DOMAIN fs) \cup {k} |-> IF x = k THEN f ELSE fs[x]]
FileRemove(fs, k) == [x \in (DOMAIN fs) \ {k} |-> fs[x]]

\* init(): throws when the directory cannot be created
InitThrows(mkdirOk) == ~initialized /\ ~mkdirOk

\* readFile + JSON.parse succeed
Readable(fs, k, readOk) == readOk /\ k \in DOMAIN fs /\ fs[k].kind = "entry"

FileGetValue(fs, k, t, readOk) ==
    IF Readable(fs, k, readOk) /\ ~(t > fs[k].expiresAt) THEN fs[k].data ELSE null
FileGetFiles(fs, k, t, readOk, unlinkOk) ==
    IF Readable(fs, k, readOk) /\ t > fs[k].expiresAt /\ unlinkOk
    THEN FileRemove(fs, k) ELSE fs

\* writeFile: written, failed leaving the old state, or failed part-way
FileSetFiles(fs, k, v, ttlMs, t, write) ==
    LET ttl == Coalesce(ttlMs, FileDefaultTtl)
    IN  CASE write = "ok" -> FilePut(fs, k, FileEntry(v, t + ttl, t))
          [] write = "partial" -> FilePut(fs, k, CorruptFile)
          [] OTHER -> fs

FileDeleteFiles(fs, k, unlinkOk) ==
    IF unlinkOk /\ k \in DOMAIN fs THEN FileRemove(fs, k) ELSE fs

FileCleanupKeeps_Corrupt(f, t) == f.kind = "corrupt" \/ ~(t > f.expiresAt)
FileCleanupKeeps(f, t) == f.kind = "entry" /\ ~(t > f.expiresAt)
FileCleanupFiles(fs, t) == [x \in {y \in DOMAIN fs : FileCleanupKeeps(fs[y], t)} |-> fs[x]]

FileGetAge(fs, k, t, readOk) ==
    IF Readable(fs, k, readOk) THEN FloorDiv(t - fs[k].createdAt, 1000) ELSE undefined

FileUnchanged == UNCHANGED <<now, cache, hits, misses, budget, requests, tasks, transports>>

FileThrow(op, k) ==
    /\ ret' = Thrown(op, k)
    /\ UNCHANGED <<files, initialized, hist>>
    /\ FileUnchanged

FileGet(k, mkdirOk, readOk, unlinkOk) ==
    IF InitThrows(mkdirOk) THEN FileThrow("file.get", k)
    ELSE /\ initialized' = TRUE
         /\ files' = FileGetFiles(files, k, now, readOk, unlinkOk)
         /\ ret' = Ret("file.get", k, FileGetValue(files, k, now, readOk), 0)
         /\ hist' = [hist EXCEPT !.fileSet = KeepLog(@, DOMAIN files')]
         /\ FileUnchanged

FileSet(k, v, ttlMs, mkdirOk, write) ==
    IF InitThrows(mkdirOk) THEN FileThrow("file.set", k)
    ELSE /\ initialized' = TRUE
         /\ files' = FileSetFiles(files, k, v, ttlMs, now, write)
         /\ ret' = NoRet
         /\ hist' = [hist EXCEPT !.fileSet =
                       PutLog(@, DOMAIN files', k,
                              SetRecIO(v, now, Coalesce(ttlMs, FileDefaultTtl), write = "ok"))]
         /\ FileUnchanged

FileHas(k, mkdirOk, readOk, unlinkOk) ==
    IF InitThrows(mkdirOk) THEN FileThrow("file.has", k)
    ELSE /\ initialized' = TRUE
         /\ files' = FileGetFiles(files, k, now, readOk, unlinkOk)
         /\ ret' = Ret("file.has", k,
                       IF FileGetValue(files, k, now, readOk) # null THEN "true" ELSE "false", 0)
         /\ hist' = [hist EXCEPT !.fileSet = KeepLog(@, DOMAIN files')]
         /\ FileUnchanged

FileDelete(k, mkdirOk, unlinkOk) ==
    IF InitThrows(mkdirOk) THEN FileThrow("file.delete", k)
    ELSE /\ initialized' = TRUE
         /\ files' = FileDeleteFiles(files, k, unlinkOk)
         /\ ret' = Ret("file.delete", k,
                       IF unlinkOk /\ k \in DOMAIN files THEN "true" ELSE "false", 0)
         /\ hist' = [hist EXCEPT !.fileSet = KeepLog(@, DOMAIN files')]
         /\ FileUnchanged

\* clear(): readdir, then unlink every *.json file (all or nothing here)
FileClear(mkdirOk, ioOk) ==
    IF InitThrows(mkdirOk) THEN FileThrow("file.clear", "")
    ELSE /\ initialized' = TRUE
         /\ files' = IF ioOk THEN <<>> ELSE files
         /\ ret' = NoRet
         /\ hist' = [hist EXCEPT !.fileSet = KeepLog(@, DOMAIN files')]
         /\ FileUnchanged

\* cleanup(): readdir, then unlink the expired and the corrupt files
FileCleanup(mkdirOk, ioOk) ==
    IF InitThrows(mkdirOk) THEN FileThrow("file.cleanup", "")
    ELSE /\ initialized' = TRUE
         /\ files' = IF ioOk THEN FileCleanupFiles(files, now) ELSE files
         /\ ret' = Ret("file.cleanup", "", null,
                       Cardinality(DOMAIN files) - Cardinality(DOMAIN files'))
         /\ hist' = [hist EXCEPT !.fileSet = KeepLog(@, DOMAIN files')]
         /\ FileUnchanged

(***************************************************************************)
(* CacheManager                                                            *)
(***************************************************************************)
enableFileCache == TRUE

CacheTTL ==
    [tradera |-> [categories |-> 24 * 60 * 60 * 1000,
                  counties |-> 7 * 24 * 60 * 60 * 1000,
                  searchResults |-> 30 * 60 * 1000,
                  itemDetails |-> 15 * 60 * 1000,
                  feedbackSummary |-> 60 * 60 * 1000],
     blocket |-> [searchResults |-> 5 * 60 * 1000,
                  adDetails |-> 10 * 60 * 1000,
                  categories |-> 60 * 60 * 1000]]

\* a namespace 'platform:type', kept as its two parts
Namespace(platform, type) == [platform |-> platform, type |-> type]
NsName(ns) == ns.platform \o ":" \o ns.type
makeKey(ns, key) == NsName(ns) \o ":" \o key
IsTradera_Always(ns) == TRUE
IsTradera(ns) == ns.platform = "tradera"

getTtlThrows(ns) == ns.platform \notin DOMAIN CacheTTL
getTtl(ns) ==
    LET platformConfig == CacheTTL[ns.platform]
    IN  IF ns.type \in DOMAIN platformConfig THEN platformConfig[ns.type]
        ELSE 5 * 60 * 1000

\* CacheManager.get on the state (c, fs, inited): what it returns and leaves
CMGetResult(c, fs, inited, ns, key, t, mkdirOk, readOk, unlinkOk) ==
    LET ck == makeKey(ns, key)
        memoryData == MemGetValue(c, ck, t)
        c1 == MemGetMap(c, ck, t)
        fileData == FileGetValue(fs, ck, t, readOk)
        fs1 == FileGetFiles(fs, ck, t, readOk, unlinkOk)
        base == [cache |-> c1, files |-> fs, initialized |-> inited,
                 memHit |-> MemGetHit(c, ck, t), threw |-> FALSE,
                 data |-> null, cached |-> FALSE, age |-> undefined]
    IN  IF memoryData # null
        THEN [base EXCEPT !.data = memoryData, !.cached = TRUE,
                          !.age = MemGetAge(c1, ck, t)]
        ELSE IF ~enableFileCache THEN base
        ELSE IF ~inited /\ ~mkdirOk THEN [base EXCEPT !.threw = TRUE]
        ELSE IF fileData # null
        THEN IF getTtlThrows(ns)
             THEN [base EXCEPT !.threw = TRUE, !.files = fs1, !.initialized = TRUE]
             ELSE [base EXCEPT !.cache = MemSetMap(c1, ck, fileData, getTtl(ns), t),
                               !.files = fs1, !.initialized = TRUE,
                               !.data = fileData, !.cached = TRUE,
                               !.age = FileGetAge(fs1, ck, t, readOk)]
        ELSE [base EXCEPT !.files = fs1, !.initialized = TRUE]

\* CacheManager.set on the state (c, fs, inited)
CMSetResult(c, fs, inited, ns, key, v, customTtl, t, mkdirOk, write) ==
    LET ck == makeKey(ns, key)
        ttl == Coalesce(customTtl, getTtl(ns))
        c1 == MemSetMap(c, ck, v, ttl, t)
        base == [cache |-> c, files |-> fs, initialized |-> inited,
                 threw |-> FALSE, wrote |-> FALSE, ttl |-> 0]
    IN  IF customTtl = undefined /\ getTtlThrows(ns) THEN [base EXCEPT !.threw = TRUE]
        ELSE IF ~(enableFileCache /\ IsTradera(ns))
        THEN [base EXCEPT !.cache = c1, !.wrote = TRUE, !.ttl = ttl]
        ELSE IF ~inited /\ ~mkdirOk
        THEN [base EXCEPT !.cache = c1, !.threw = TRUE, !.wrote = TRUE, !.ttl = ttl]
        ELSE [base EXCEPT !.cache = c1, !.wrote = TRUE, !.ttl = ttl,
                          !.files = FileSetFiles(fs, ck, v, ttl, t, write),
                          !.initialized = TRUE]

\* the history of CacheManager writes
NoteWrite(w, ck, v, deadline) ==
    IF v = null THEN w ELSE
    [x \in (DOMAIN w) \cup {<<ck, v>>} |->
        IF x = <<ck, v>>
        THEN (IF x \in DOMAIN w THEN Max(w[x], deadline) ELSE deadline)
        ELSE w[x]]

\* the history after a lookup g of ck on the files fs: a value promoted from
\* the persistent tier was first written when its record was created
NoteGet(h, g, fs, ck) ==
    IF g.cached /\ ~g.memHit
    THEN [h EXCEPT !.origin = PutLog(@, MapKeys(g.cache), ck, fs[ck].createdAt)]
    ELSE [h EXCEPT !.origin = KeepLog(@, MapKeys(g.cache))]

\* the history after a write w of the value v under ck at time t
NoteSet(h, w, ck, v, t) ==
    IF w.wrote
    THEN [h EXCEPT !.written = NoteWrite(@, ck, v, t + w.ttl),
                   !.origin = PutLog(@, MapKeys(w.cache), ck, t)]
    ELSE h

CMUnchanged == UNCHANGED <<now, budget, requests, tasks, transports>>

CMCount(memHit) ==
    /\ hits + misses < MaxCount
    /\ hits' = IF memHit THEN hits + 1 ELSE hits
    /\ misses' = IF memHit THEN misses ELSE misses + 1

CMGet(ns, key, mkdirOk, readOk, unlinkOk) ==
    \E r \in {CMGetResult(cache, files, initialized, ns, key, now, mkdirOk, readOk, unlinkOk)} :
        /\ CMCount(r.memHit)
        /\ cache' = r.cache
        /\ files' = r.files
        /\ initialized' = r.initialized
        /\ ret' = RetAll("get", makeKey(ns, key), r.data, r.age, r.threw, r.cached, FALSE, TRUE)
        /\ hist' = NoteGet(hist, r, files, makeKey(ns, key))
        /\ CMUnchanged

CMSet(ns, key, v, customTtl, mkdirOk, write) ==
    \E r \in {CMSetResult(cache, files, initialized, ns, key, v, customTtl, now, mkdirOk, write)} :
        /\ cache' = r.cache
        /\ files' = r.files
        /\ initialized' = r.initialized
        /\ ret' = IF r.threw THEN Thrown("set", makeKey(ns, key)) ELSE NoRet
        /\ hist' = NoteSet(hist, r, makeKey(ns, key), v, now)
        /\ UNCHANGED <<hits, misses>>
        /\ CMUnchanged

\* getOrFetch; fetchFn returns the value f or throws (f = FetchError)
FetchError == "fetch error"
FetchFailed_Never(f) == FALSE
FetchFailed(f) == f = FetchError

GetOrFetch(ns, key, f, customTtl, mkdirOk, readOk, unlinkOk, write) ==
    \E ck \in {makeKey(ns, key)},
       g \in {CMGetResult(cache, files, initialized, ns, key, now, mkdirOk, readOk, unlinkOk)} :
    \E w \in {CMSetResult(g.cache, g.files, g.initialized, ns, key, f, customTtl, now, mkdirOk, write)} :
        /\ CMCount(g.memHit)
        /\ CMUnchanged
        /\ IF g.threw
           THEN /\ cache' = g.cache /\ files' = g.files /\ initialized' = g.initialized
                /\ ret' = RetAll("getOrFetch", ck, null, undefined, TRUE, FALSE, FALSE, readOk)
                /\ hist' = NoteGet(hist, g, files, ck)
           ELSE IF g.data # null
           THEN /\ cache' = g.cache /\ files' = g.files /\ initialized' = g.initialized
                /\ ret' = RetAll("getOrFetch", ck, g.data, g.age, FALSE, TRUE, FALSE, readOk)
                /\ hist' = NoteGet(hist, g, files, ck)
           ELSE IF FetchFailed(f)
           THEN /\ cache' = g.cache /\ files' = g.files /\ initialized' = g.initialized
                /\ ret' = RetAll("getOrFetch", ck, FetchError, undefined, TRUE, FALSE, TRUE, readOk)
                /\ hist' = NoteGet(hist, g, files, ck)
           ELSE /\ cache' = w.cache /\ files' = w.files /\ initialized' = w.initialized
                /\ ret' = RetAll("getOrFetch", ck, f, undefined, w.threw, FALSE, TRUE, readOk)
                /\ hist' = NoteSet(NoteGet(hist, g, files, ck), w, ck, f, now)

\* the process is restarted: the objects are constructed anew, the files stay
Restart ==
    /\ cache' = <<>>
    /\ hits' = 0
    /\ misses' = 0
    /\ initialized' = FALSE
    /\ ret' = NoRet
    /\ hist' = [hist EXCEPT !.memSet = <<>>, !.origin = <<>>]
    /\ transports' = <<>>
    /\ UNCHANGED <<now, files, budget, requests, tasks>>

(***************************************************************************)
(* RateLimiter (the Blocket instance: 5 requests per second)               *)
(***************************************************************************)
maxRequests == 5
windowMs == 1000

cleanupOldRequests_Keep(rs, t) == rs
cleanupOldRequests(rs, t) == SelectSeq(rs, LAMBDA time : time > t - windowMs)

getTimeUntilNextRequest_Absolute(rs, t) ==
    LET cleaned == cleanupOldRequests(rs, t)
    IN  IF Len(cleaned) < maxRequests THEN 0 ELSE cleaned[1] + windowMs
\* a request time of 0 is falsy in `if (!oldestRequest)`
getTimeUntilNextRequest(rs, t) ==
    LET cleaned == cleanupOldRequests(rs, t)
    IN  IF Len(cleaned) < maxRequests THEN 0
        ELSE IF cleaned[1] = 0 THEN 0
        ELSE Max(0, cleaned[1] + windowMs - t)

recordRequest(rs, t) == Append(rs, t)

canMakeRequest(rs, t) == Len(cleanupOldRequests(rs, t)) < maxRequests
getRemainingRequests(rs, t) == Max(0, maxRequests - Len(cleanupOldRequests(rs, t)))

\* a throttle() call suspended in sleep(waitTime)
Sleeper(wake) == [op |-> "throttle", wake |-> wake]
RemoveAt(q, i) == SubSeq(q, 1, i - 1) \o SubSeq(q, i + 1, Len(q))

LimUnchanged == UNCHANGED <<cache, hits, misses, files, initialized, budget, transports>>

\* throttle() up to its await, or to its end when it need not wait
Throttle ==
    /\ Len(hist.calls) + Len(tasks) < MaxCalls
    /\ LET waitTime == getTimeUntilNextRequest(requests, now)
           cleaned == cleanupOldRequests(requests, now)
       IN  IF waitTime > 0
           THEN /\ requests' = cleaned
                /\ tasks' = Append(tasks, Sleeper(now + waitTime))
                /\ UNCHANGED hist
           ELSE /\ requests' = recordRequest(cleaned, now)
                /\ hist' = [hist EXCEPT !.calls = Append(@, now)]
                /\ UNCHANGED tasks
    /\ ret' = NoRet
    /\ UNCHANGED now
    /\ LimUnchanged

\* the timer of a suspended throttle() has fired: it records its request
ThrottleWake(i) ==
    /\ tasks[i].op = "throttle"
    /\ now >= tasks[i].wake
    /\ requests' = recordRequest(requests, now)
    /\ hist' = [hist EXCEPT !.calls = Append(@, now)]
    /\ tasks' = RemoveAt(tasks, i)
    /\ ret' = NoRet
    /\ UNCHANGED now
    /\ LimUnchanged

LimGetStats ==
    /\ requests' = cleanupOldRequests(requests, now)
    /\ ret' = Ret("getStats", "", null, Len(requests'))
    /\ UNCHANGED <<now, tasks, hist>>
    /\ LimUnchanged

(***************************************************************************)
(* TraderaClient: the daily budget                                         *)
(***************************************************************************)
ResetDue_Always(b, t) == TRUE
ResetDue(b, t) == t > b.resetTime

checkBudgetReset_KeepsUsed(b, t) ==
    IF ResetDue(b, t)
    THEN [b EXCEPT !.resetTime = getNextResetTime(t)]
    ELSE b
checkBudgetReset(b, t) ==
    IF ResetDue(b, t)
    THEN [b EXCEPT !.used = 0, !.remaining = b.dailyLimit,
                   !.resetTime = getNextResetTime(t)]
    ELSE b

canMakeApiCall_Always(b, t) == TRUE
canMakeApiCall(b, t) == checkBudgetReset(b, t).remaining > 0

\* `this.budget.used++`
Increment_Stale(used) == 1
Increment(used) == used + 1

recordApiCall_StaleRemaining(b, t) ==
    LET b1 == checkBudgetReset(b, t)
    IN  [b1 EXCEPT !.used = Increment(b1.used)]
recordApiCall(b, t) ==
    LET b1 == checkBudgetReset(b, t)
    IN  [b1 EXCEPT !.used = Increment(b1.used),
                   !.remaining = b1.dailyLimit - Increment(b1.used)]

(***************************************************************************)
(* TraderaClient: the five operations.  Each one looks the key up in the   *)
(* cache, checks the budget, sends the request, and on a parsed response   *)
(* records the call and stores the result.                                 *)
(***************************************************************************)
TraderaOps == {"search", "getItem", "getCategories", "getCounties", "getFeedbackSummary"}

OpNamespace(op) ==
    CASE op = "search" -> Namespace("tradera", "search")
      [] op = "getItem" -> Namespace("tradera", "item")
      [] op = "getCategories" -> Namespace("tradera", "categories")
      [] op = "getCounties" -> Namespace("tradera", "counties")
      [] op = "getFeedbackSummary" -> Namespace("tradera", "feedback")

\* the cache key of the one argument each operation is called with here
OpKey(op) ==
    CASE op = "search" -> "q"
      [] op = "getItem" -> "1"
      [] op = "getCategories" -> "all"
      [] op = "getCounties" -> "all"
      [] op = "getFeedbackSummary" -> "1"

OpTtl(op) ==
    CASE op = "search" -> CacheTTL.tradera.searchResults
      [] op = "getItem" -> CacheTTL.tradera.itemDetails
      [] op = "getCategories" -> CacheTTL.tradera.categories
      [] op = "getCounties" -> CacheTTL.tradera.counties
      [] op = "getFeedbackSummary" -> CacheTTL.tradera.feedbackSummary

HasForceRefresh(op) == op # "getFeedbackSummary"
CanBeNotFound(op) == op \in {"getItem", "getFeedbackSummary"}

\* what the caller gets when the budget is exhausted, and when the call fails
Empty == "[]"
Result == "R"
Raises(op) == op = "search"
Fallback(op) == IF op \in {"getCategories", "getCounties"} THEN Empty ELSE null

TraRet(op, v, threw, cached, sent) ==
    RetAll(op, makeKey(OpNamespace(op), OpKey(op)), v, undefined, threw, cached, sent, TRUE)
Denied(op) == TraRet(op, IF Raises(op) THEN "budget exhausted" ELSE Fallback(op), Raises(op), FALSE, FALSE)
Failed(op) == TraRet(op, IF Raises(op) THEN "request failed" ELSE Fallback(op), Raises(op), FALSE, TRUE)

\* the operations awaiting the cache or the network: a bag, since the
\* promises are not ordered
InFlight(op, stage) == [op |-> op, stage |-> stage]
Pending == IF tasks = <<>> THEN EmptyBag ELSE tasks
Join(ts, t) == ts (+) SetToBag({t})
Leave(ts, t) == ts (-) SetToBag({t})

TraUnchanged == UNCHANGED <<now, requests, transports>>

\* the calls sent out in the epoch, after a budget check at time now
Dispatched == IF ResetDue(budget, now) THEN 0 ELSE hist.dispatched

\* canMakeApiCall() and, when permitted, fetch(url)
CheckAndSend(op, rest) ==
    /\ budget' = checkBudgetReset(budget, now)
    /\ IF canMakeApiCall(budget, now)
       THEN /\ Dispatched <= dailyLimit
            /\ tasks' = Join(rest, InFlight(op, "sent"))
            /\ hist' = [hist EXCEPT !.dispatched = Dispatched + 1]
            /\ UNCHANGED ret
       ELSE /\ tasks' = rest
            /\ hist' = [hist EXCEPT !.dispatched = Dispatched]
            /\ ret' = Denied(op)

\* the operation is called: up to the await of cache.get, or with
\* forceRefresh up to the await of fetch
TraCall(op, forceRefresh) ==
    /\ BagCardinality(Pending) < MaxTasks
    /\ forceRefresh => HasForceRefresh(op)
    /\ TraUnchanged
    /\ IF forceRefresh
       THEN /\ CheckAndSend(op, Pending)
            /\ UNCHANGED <<cache, hits, misses, files, initialized>>
       ELSE \E g \in {CMGetResult(cache, files, initialized, OpNamespace(op), OpKey(op),
                                  now, TRUE, TRUE, TRUE)} :
            /\ CMCount(g.memHit)
            /\ cache' = g.cache
            /\ files' = g.files
            /\ initialized' = g.initialized
            /\ UNCHANGED <<budget, hist>>
            /\ IF Truthy(g.data)
               THEN /\ ret' = TraRet(op, g.data, FALSE, TRUE, FALSE)
                    /\ UNCHANGED tasks
               ELSE /\ tasks' = Join(Pending, InFlight(op, "miss"))
                    /\ UNCHANGED ret

\* after the cache miss: the budget check and the request
TraSend(task) ==
    /\ task.op \in TraderaOps
    /\ task.stage = "miss"
    /\ CheckAndSend(task.op, Leave(Pending, task))
    /\ UNCHANGED <<cache, hits, misses, files, initialized>>
    /\ TraUnchanged

\* the response: "ok" (parsed, with a result), "notFound" (parsed, no item)
\* or "error" (HTTP status, network or parse error)
Responses == {"ok", "notFound", "error"}

TraRespond(task, response) ==
    LET op == task.op
    IN  /\ task.op \in TraderaOps
        /\ task.stage = "sent"
        /\ response = "notFound" => CanBeNotFound(op)
        /\ tasks' = Leave(Pending, task)
        /\ TraUnchanged
        /\ UNCHANGED <<hits, misses>>
        /\ IF response = "error"
           THEN /\ UNCHANGED <<budget, cache, files, initialized, hist>>
                /\ ret' = Failed(op)
           ELSE /\ budget' = recordApiCall(budget, now)
                /\ hist' = [hist EXCEPT !.dispatched = Dispatched]
                /\ IF response = "notFound"
                   THEN /\ UNCHANGED <<cache, files, initialized>>
                        /\ ret' = TraRet(op, null, FALSE, FALSE, TRUE)
                   ELSE \E w \in {CMSetResult(cache, files, initialized, OpNamespace(op),
                                              OpKey(op), Result, OpTtl(op), now, TRUE, "ok")} :
                        /\ cache' = w.cache
                        /\ files' = w.files
                        /\ initialized' = w.initialized
                        /\ ret' = TraRet(op, Result, FALSE, FALSE, TRUE)

\* getBudget(): num is the used count of the copy returned
GetBudget ==
    /\ budget' = checkBudgetReset(budget, now)
    /\ ret' = Ret("getBudget", "", null, budget'.used)
    /\ hist' = [hist EXCEPT !.dispatched = Dispatched]
    /\ UNCHANGED <<cache, hits, misses, files, initialized, tasks>>
    /\ TraUnchanged

\* canMakeApiCall(): num is the used count the call found
CanMakeApiCall ==
    /\ budget' = checkBudgetReset(budget, now)
    /\ ret' = Ret("canMakeApiCall", "",
                  IF canMakeApiCall(budget, now) THEN "true" ELSE "false", budget.used)
    /\ hist' = [hist EXCEPT !.dispatched = Dispatched]
    /\ UNCHANGED <<cache, hits, misses, files, initialized, tasks>>
    /\ TraUnchanged

(***************************************************************************)
(* CacheManager.clear() without a namespace                                *)
(***************************************************************************)
CMClear(mkdirOk, ioOk) ==
    /\ cache' = <<>>
    /\ hits' = 0
    /\ misses' = 0
    /\ IF InitThrows(mkdirOk)
       THEN /\ UNCHANGED <<files, initialized>>
            /\ ret' = Thrown("clear", "")
       ELSE /\ initialized' = TRUE
            /\ files' = IF ioOk THEN <<>> ELSE files
            /\ ret' = Ret("clear", "", null, 0)
    /\ hist' = [hist EXCEPT !.memSet = <<>>, !.origin = <<>>,
                             !.fileSet = KeepLog(@, DOMAIN files')]
    /\ CMUnchanged

\* CacheManager.clear(namespace): memory.delete of every key that starts with
\* the namespace; the files are not touched
StartsWith_Always(s, p) == TRUE
StartsWith(s, p) == Len(s) >= Len(p) /\ SubSeq(s, 1, Len(p)) = p

CMClearNs(ns) ==
    /\ cache' = SelectSeq(cache, LAMBDA e : ~StartsWith(e.key, NsName(ns)))
    /\ ret' = Ret("clear", NsName(ns), null, 0)
    /\ hist' = [hist EXCEPT !.memSet = KeepLog(@, MapKeys(cache')),
                             !.origin = KeepLog(@, MapKeys(cache'))]
    /\ UNCHANGED <<hits, misses, files, initialized>>
    /\ CMUnchanged

(***************************************************************************)
(* BlocketClient.search: the cache, then fetchAndValidate behind the       *)
(* RateLimiter, then cache.set without a TTL of its own                    *)
(***************************************************************************)
BlocketSearch == "blocket.search"
BloNamespace == Namespace("blocket", "search")

Waiting(stage, key, wake) == [op |-> BlocketSearch, stage |-> stage, key |-> key, wake |-> wake]

BloRet(key, v, n, threw, cached, sent) ==
    RetAll(BlocketSearch, makeKey(BloNamespace, key), v, n, threw, cached, sent, TRUE)

BloUnchanged == UNCHANGED <<budget, transports>>

\* search() up to the await of cache.get
BloSearch(key) ==
    /\ BagCardinality(Pending) < MaxTasks
    /\ BloUnchanged
    /\ UNCHANGED <<now, requests, hist>>
    /\ \E g \in {CMGetResult(cache, files, initialized, BloNamespace, key, now, TRUE, TRUE, TRUE)} :
          /\ CMCount(g.memHit)
          /\ cache' = g.cache
          /\ files' = g.files
          /\ initialized' = g.initialized
          /\ IF Truthy(g.data)
             THEN /\ ret' = BloRet(key, g.data, Coalesce(g.age, 0), FALSE, TRUE, FALSE)
                  /\ UNCHANGED tasks
             ELSE /\ tasks' = Join(Pending, Waiting("miss", key, 0))
                  /\ UNCHANGED ret

\* after the miss: rateLimiter.throttle() up to its sleep, or through to fetch
BloThrottle(task) ==
    /\ task.op = BlocketSearch
    /\ task.stage = "miss"
    /\ Len(hist.calls) < MaxCalls
    /\ BloUnchanged
    /\ UNCHANGED <<now, cache, hits, misses, files, initialized, ret>>
    /\ LET waitTime == getTimeUntilNextRequest(requests, now)
           cleaned == cleanupOldRequests(requests, now)
       IN  IF waitTime > 0
           THEN /\ requests' = cleaned
                /\ tasks' = Join(Leave(Pending, task), Waiting("sleep", task.key, now + waitTime))
                /\ UNCHANGED hist
           ELSE /\ requests' = recordRequest(cleaned, now)
                /\ tasks' = Join(Leave(Pending, task), Waiting("sent", task.key, 0))
                /\ hist' = [hist EXCEPT !.calls = Append(@, now)]

\* the timer of the sleep in throttle() fires, at the time it was set for
\* unless that has passed already: the request is recorded and sent
BloWake(task) ==
    /\ task.op = BlocketSearch
    /\ task.stage = "sleep"
    /\ now' = Max(now, task.wake)
    /\ BloUnchanged
    /\ UNCHANGED <<cache, hits, misses, files, initialized, ret>>
    /\ requests' = recordRequest(requests, now')
    /\ tasks' = Join(Leave(Pending, task), Waiting("sent", task.key, 0))
    /\ hist' = [hist EXCEPT !.calls = Append(@, now')]

\* the response: validated ("ok") or an HTTP, validation or network error
BloRespond(task, response) ==
    /\ task.op = BlocketSearch
    /\ task.stage = "sent"
    /\ tasks' = Leave(Pending, task)
    /\ BloUnchanged
    /\ UNCHANGED <<now, requests, hits, misses, hist>>
    /\ IF response = "error"
       THEN /\ UNCHANGED <<cache, files, initialized>>
            /\ ret' = BloRet(task.key, "request failed", undefined, TRUE, FALSE, TRUE)
       ELSE \E w \in {CMSetResult(cache, files, initialized, BloNamespace, task.key,
                                  Result, undefined, now, TRUE, "ok")} :
            /\ cache' = w.cache
            /\ files' = w.files
            /\ initialized' = w.initialized
            /\ ret' = BloRet(task.key, Result, undefined, FALSE, FALSE, TRUE)

(***************************************************************************)
(* The clock                                                               *)
(***************************************************************************)
Advance(step, last) ==
    /\ now + step <= last
    /\ now' = now + step
    /\ UNCHANGED <<cache, hits, misses, files, initialized, budget, requests,
                   tasks, transports, ret, hist>>

(***************************************************************************)
(* MemoryCache on its own                                                  *)
(***************************************************************************)
MemKeys == {"", "A", "B"}
MemValues == {"v1", "v2"}
MemTick == 5 * 60 * 1000
MemTtls == {undefined}

MemTickStep == Advance(MemTick, MemMaxTicks * MemTick)

NextMemory ==
    \/ \E k \in MemKeys, v \in MemValues, ttl \in MemTtls : MemSet(k, v, ttl)
    \/ \E k \in MemKeys : MemGet(k)
    \/ \E k \in MemKeys : MemHas(k)
    \/ \E k \in MemKeys : MemDelete(k)
    \/ MemClear
    \/ MemCleanup
    \/ MemTickStep

SpecMemory == Init /\ [][NextMemory]_vars

(***************************************************************************)
(* The two tiers side by side, each used directly                          *)
(***************************************************************************)
TierKeys == {"A"}
TierValues == {"v1", "v2"}
TierTtls == {undefined, MemTick}
WriteOutcomes == {"ok", "failed", "partial"}

\* the file system during one operation: all calls succeed, or one kind fails
Io(mkdir, read, unlink, write) ==
    [mkdir |-> mkdir, read |-> read, unlink |-> unlink, write |-> write]
IoOk == Io(TRUE, TRUE, TRUE, "ok")
IoCases ==
    {IoOk, Io(FALSE, TRUE, TRUE, "ok"), Io(TRUE, FALSE, TRUE, "ok"),
     Io(TRUE, TRUE, FALSE, "ok"), Io(TRUE, TRUE, TRUE, "failed"),
     Io(TRUE, TRUE, TRUE, "partial")}

NextTiers ==
    \/ \E k \in TierKeys, v \in TierValues, ttl \in TierTtls : MemSet(k, v, ttl)
    \/ \E k \in TierKeys : MemGet(k)
    \/ \E k \in TierKeys : MemDelete(k)
    \/ \E k \in TierKeys, v \in TierValues, ttl \in TierTtls, m \in BOOLEAN, w \in WriteOutcomes :
          FileSet(k, v, ttl, m, w)
    \/ \E k \in TierKeys, m \in BOOLEAN, r \in BOOLEAN, u \in BOOLEAN : FileGet(k, m, r, u)
    \/ \E k \in TierKeys, m \in BOOLEAN, u \in BOOLEAN : FileDelete(k, m, u)
    \/ \E m \in BOOLEAN, io \in BOOLEAN : FileCleanup(m, io)
    \/ MemTickStep

SpecTiers == Init /\ [][NextTiers]_vars


(***************************************************************************)
(* The CacheManager, used by one caller at a time                          *)
(***************************************************************************)
CacheNamespaces == {Namespace("tradera", "search")}
CacheKeys == {"k"}
SetValues == {"v1"}              \* values passed to set
CacheValues == {"v1", null}      \* values fetchFn returns
CacheTtls == {undefined, 2 * MemTick}

NextCache ==
    \/ \E ns \in CacheNamespaces, k \in CacheKeys, io \in IoCases :
          CMGet(ns, k, io.mkdir, io.read, io.unlink)
    \/ \E ns \in CacheNamespaces, k \in CacheKeys, v \in SetValues, ttl \in CacheTtls,
          io \in IoCases :
          CMSet(ns, k, v, ttl, io.mkdir, io.write)
    \/ \E ns \in CacheNamespaces, k \in CacheKeys, f \in CacheValues \cup {FetchError},
          ttl \in CacheTtls, io \in IoCases :
          GetOrFetch(ns, k, f, ttl, io.mkdir, io.read, io.unlink, io.write)
    \/ Restart
    \/ MemTickStep

SpecCache == Init /\ [][NextCache]_vars


(***************************************************************************)
(* One RateLimiter with concurrent throttle() callers.  The clock starts   *)
(* at a positive time, as Date.now() does.                                 *)
(***************************************************************************)
LimStart == windowMs
LimTick == windowMs \div 4

InitLimiter ==
    /\ now = LimStart
    /\ cache = <<>>
    /\ hits = 0
    /\ misses = 0
    /\ files = <<>>
    /\ initialized = FALSE
    /\ budget = InitBudget(LimStart)
    /\ requests = <<>>
    /\ tasks = <<>>
    /\ transports = <<>>
    /\ ret = NoRet
    /\ hist = NoHist

LimTickStep == Advance(LimTick, LimStart + LimMaxTicks * LimTick)

NextLimiter ==
    \/ Throttle
    \/ \E i \in 1..Len(tasks) : ThrottleWake(i)
    \/ LimGetStats
    \/ LimTickStep

SpecLimiter == InitLimiter /\ [][NextLimiter]_vars


(***************************************************************************)
(* One TraderaClient with concurrent operations; the file system works     *)
(***************************************************************************)
TraTick == DAY

\* the operation that raises and one of those that return null or []
TraOps == {"search", "getItem"}

TraTickStep == Advance(TraTick, TraMaxTicks * TraTick)

NextTradera ==
    \/ \E op \in TraOps, forceRefresh \in BOOLEAN : TraCall(op, forceRefresh)
    \/ \E task \in BagToSet(Pending) : TraSend(task)
    \/ \E task \in BagToSet(Pending), response \in Responses : TraRespond(task, response)
    \/ GetBudget
    \/ CanMakeApiCall
    \/ TraTickStep

SpecTradera == Init /\ [][NextTradera]_vars

(***************************************************************************)
(* The budget of a TraderaClient on which only getItem is called           *)
(***************************************************************************)
BudgetOps == {"getItem"}

NextBudget ==
    \/ \E op \in BudgetOps, forceRefresh \in BOOLEAN : TraCall(op, forceRefresh)
    \/ \E task \in BagToSet(Pending) : TraSend(task)
    \/ \E task \in BagToSet(Pending), response \in Responses : TraRespond(task, response)
    \/ GetBudget
    \/ CanMakeApiCall
    \/ TraTickStep

SpecBudget == Init /\ [][NextBudget]_vars


(***************************************************************************)
(* Both clients on the one CacheManager; the file system works             *)
(***************************************************************************)
ClientKeys == {"q"}
ClientTradera == {"search"}

NextClients ==
    \/ \E op \in ClientTradera : TraCall(op, FALSE)
    \/ \E task \in BagToSet(Pending) : TraSend(task)
    \/ \E task \in BagToSet(Pending), response \in Responses : TraRespond(task, response)
    \/ \E key \in ClientKeys : BloSearch(key)
    \/ \E task \in BagToSet(Pending) : BloThrottle(task)
    \/ \E task \in BagToSet(Pending) : BloWake(task)
    \/ \E task \in BagToSet(Pending), response \in {"ok", "error"} : BloRespond(task, response)
    \/ CMClear(TRUE, TRUE)

SpecClients == InitLimiter /\ [][NextClients]_vars

\* C5: after any sequence of MemoryCache operations the number of stored
\* entries is at most maxSize.
C5_SizeBounded == Len(cache) <= maxSize

\* the entries of m other than the one stored under k, in order
Others(m, k) == SelectSeq(m, LAMBDA e : e.key # k)

\* C6: set of an absent key on a full cache removes exactly one entry, one
\* whose last-access time is the smallest, and leaves every other entry as it was.
EvictsExactlyTheOldest(k) ==
    \E victim \in MapKeys(cache) :
        /\ \A j \in 1..Len(cache) : MapGet(cache, victim).accessedAt <= cache[j].accessedAt
        /\ Others(cache', k) = Others(cache, victim)
        /\ MapHas(cache', k)

C6_EvictsLRU ==
    [][\A k \in MemKeys, v \in MemValues, ttl \in MemTtls :
         (MemSet(k, v, ttl) /\ Len(cache) = maxSize /\ ~MapHas(cache, k))
            => EvictsExactlyTheOldest(k)]_vars

\* the expiry set() computed for the record r of the log
ExpiresAt(r) == r.at + r.ttl

\* get of a key whose last set is still in the tier, no write or removal since
MemGetAfterSet(k) ==
    /\ k \in DOMAIN hist.memSet
    /\ ret'.op = "mem.get"
    /\ MemGet(k)
FileGetAfterSet(k) ==
    /\ k \in DOMAIN hist.fileSet
    /\ hist.fileSet[k].stored
    /\ ret'.op = "file.get"
    /\ ~ret'.threw
    /\ \E m \in BOOLEAN, u \in BOOLEAN : FileGet(k, m, TRUE, u)

\* C7 as stated: get after set returns v while now < expiresAt and null from
\* now = expiresAt on, in both tiers (file system calls succeeding).
ReturnsUntilExclusive(r) ==
    /\ now < ExpiresAt(r) => ret'.data = r.val
    /\ now >= ExpiresAt(r) => ret'.data = null

C7_ExpiryBoundaryInclusive ==
    [][\A k \in TierKeys :
         /\ MemGetAfterSet(k) => ReturnsUntilExclusive(hist.memSet[k])
         /\ FileGetAfterSet(k) => ReturnsUntilExclusive(hist.fileSet[k])]_vars

\* C7 amended: get after set returns v while now <= expiresAt and null once
\* now > expiresAt, in both tiers (file system calls succeeding).
ReturnsUntilInclusive(r) ==
    /\ now <= ExpiresAt(r) => ret'.data = r.val
    /\ now > ExpiresAt(r) => ret'.data = null

C7_ExpiryStrictlyAfter ==
    [][\A k \in TierKeys :
         /\ MemGetAfterSet(k) => ReturnsUntilInclusive(hist.memSet[k])
         /\ FileGetAfterSet(k) => ReturnsUntilInclusive(hist.fileSet[k])]_vars

\* both tiers have just served a value at the very instant it expires
C7_Witness ==
    /\ ret.op = "file.get" /\ ret.data # null
    /\ ret.key \in DOMAIN files /\ files[ret.key].expiresAt = now
    /\ now > files[ret.key].createdAt
    /\ \E i \in 1..Len(cache) : cache[i].expiresAt = now /\ cache[i].accessedAt = now

\* the step is a call of the CacheManager operation op (every lookup counts
\* one hit or one miss)
CallStep(op) == ret'.op = op /\ hits' + misses' = hits + misses + 1

\* C8: a value written at time t with TTL d is never returned by
\* CacheManager.get later than t + d.
C8_NeverServedPastTtl ==
    [][(CallStep("get") /\ ret'.data # null)
          => /\ <<ret'.key, ret'.data>> \in DOMAIN hist.written
             /\ now <= hist.written[<<ret'.key, ret'.data>>]]_vars

\* the memory tier holds an unexpired entry for ck
NotYetExpired(ck) == MapHas(cache, ck) /\ now <= MapGet(cache, ck).expiresAt

\* the call that completed last was getOrFetch(ck) on a miss, fetchFn succeeding
FetchedLast(ck) ==
    /\ ret.op = "getOrFetch" /\ ret.key = ck
    /\ ret.fetched /\ ~ret.threw

\* C9: a getOrFetch that directly follows a fetching getOrFetch of the same key,
\* the entry not yet expired, does not invoke fetchFn and returns the first
\* call's value with cached = true.
C9_SecondCallCached ==
    [][(/\ CallStep("getOrFetch")
        /\ FetchedLast(ret'.key)
        /\ NotYetExpired(ret'.key))
          => (ret'.cached /\ ~ret'.fetched /\ ret'.data = ret.data)]_vars

\* no tier has gained an entry for ck or changed the value or expiry of one
NoGainOrChange(ck) ==
    /\ MapHas(cache', ck) =>
          /\ MapHas(cache, ck)
          /\ MapGet(cache', ck).data = MapGet(cache, ck).data
          /\ MapGet(cache', ck).expiresAt = MapGet(cache, ck).expiresAt
    /\ ck \in DOMAIN files' => (ck \in DOMAIN files /\ files'[ck] = files[ck])

\* the call that completed last was getOrFetch(ck) whose fetchFn threw
\* (the file system calls of its lookup succeeding)
FetchFailedLast(ck) ==
    /\ ret.op = "getOrFetch" /\ ret.key = ck
    /\ ret.data = FetchError /\ ret.io

\* C10: when fetchFn throws, getOrFetch raises that error, no tier gains or
\* changes an entry for the key, and the next getOrFetch of the key invokes
\* fetchFn again.
C10_FailedFetchNotCached ==
    [][CallStep("getOrFetch") =>
         /\ ret'.data = FetchError =>
               (ret'.threw /\ ret'.fetched /\ ~ret'.cached /\ NoGainOrChange(ret'.key))
         /\ FetchFailedLast(ret'.key) => ret'.fetched]_vars

\* a fetch has failed for the second time in a row while the persistent tier
\* holds a record of the key
C10_Witness ==
    /\ ret.op = "getOrFetch" /\ ret.data = FetchError /\ ret.threw /\ ret.fetched
    /\ ret.key \in DOMAIN files
    /\ hits + misses = 2

\* the requests recorded in the window of length windowMs that starts at t
InWindow(t) == {i \in 1..Len(hist.calls) : t <= hist.calls[i] /\ hist.calls[i] < t + windowMs}

\* C4: no time interval of length windowMs holds more than maxRequests
\* recorded request timestamps.
C4_RateBounded ==
    \A i \in 1..Len(hist.calls) : Cardinality(InWindow(hist.calls[i])) <= maxRequests

\* C1: within one budget epoch, whatever the interleaving of the concurrent
\* TraderaClient operations, no more than dailyLimit Tradera calls are sent out.
C1_DispatchedWithinLimit == hist.dispatched <= dailyLimit

\* C2: in every reachable state of the budget, 0 <= used <= dailyLimit, so
\* remaining is never negative.
C2_UsedWithinLimit ==
    /\ 0 <= budget.used
    /\ budget.used <= budget.dailyLimit
    /\ budget.remaining >= 0

RecordStep ==
    \E task \in BagToSet(Pending), response \in {"ok", "notFound"} : TraRespond(task, response)

\* C3: once dailyLimit calls are recorded in an epoch canMakeApiCall() returns
\* false; once resetTime has passed (now > resetTime), the next operation that
\* touches the budget finds used = 0 (getBudget returns 0, recordApiCall counts
\* from 0) and canMakeApiCall() returns true again.
C3_ExhaustedUntilReset ==
    [][/\ (~ResetDue(budget, now) /\ budget.used >= budget.dailyLimit /\ CanMakeApiCall)
            => ret'.data = "false"
       /\ (ResetDue(budget, now) /\ CanMakeApiCall)
            => (budget'.used = 0 /\ ret'.data = "true" /\ ~ResetDue(budget', now))
       /\ (ResetDue(budget, now) /\ GetBudget)
            => (budget'.used = 0 /\ ret'.num = 0 /\ ~ResetDue(budget', now))
       /\ (ResetDue(budget, now) /\ RecordStep)
            => (budget'.used = 1 /\ ~ResetDue(budget', now))]_vars

\* canMakeApiCall() found the budget used up and, the reset time having
\* passed, answered true and left used at 0
C3_Witness ==
    /\ ret.op = "canMakeApiCall"
    /\ ret.data = "true"
    /\ ret.num >= dailyLimit
    /\ budget.used = 0
    /\ now > DAY

\* the step ends an operation that missed the cache and found the budget used up
ExhaustedMissStep ==
    /\ ~canMakeApiCall(budget, now)
    /\ \E task \in BagToSet(Pending) : task.stage = "miss" /\ TraSend(task)

\* C11: for every TraderaClient operation, a cache miss while the budget is
\* exhausted ends in an error raised to the caller, never in a null or empty
\* result.
C11_ExhaustedMissRaises ==
    [][ExhaustedMissStep => ret'.threw]_vars

\* the number of calls awaiting their response
SentIn(ts) ==
    LET b == IF ts = <<>> THEN EmptyBag ELSE ts
    IN  BagCardinality([t \in {x \in DOMAIN b : x.stage = "sent"} |-> b[t]])

\* the step sends a call out
DispatchStep == SentIn(tasks') > SentIn(tasks)

\* C12: every Tradera call that is sent out increments used by exactly one at
\* the time it is sent, whether the call then succeeds or fails.
C12_RecordedAtDispatch ==
    [][DispatchStep => budget'.used = checkBudgetReset(budget, now).used + 1]_vars

\* the step is a client operation that looked its key up and was answered
\* from the cache
HitStep(ops) ==
    /\ hits' + misses' = hits + misses + 1
    /\ ret'.op \in ops
    /\ ret'.cached

\* the operation that completed last was a search that fetched its result
SearchedLast ==
    /\ ret.op = "search"
    /\ ret.data = Result
    /\ ret.fetched /\ ~ret.threw

OnlyOnDisk(ck) ==
    /\ ~MapHas(cache, ck)
    /\ ck \in DOMAIN files
    /\ files[ck].kind = "entry"
    /\ now <= files[ck].expiresAt

\* C14: when the persistent tier holds an unexpired record of a key and the
\* memory tier has no entry for it, CacheManager.get (file system calls
\* succeeding) returns the record's value with cached = true and leaves the
\* key in the memory tier, where a get at once would hit.
C14_PromotedOnFileHit ==
    [][\A ns \in CacheNamespaces, k \in CacheKeys :
          (OnlyOnDisk(makeKey(ns, k)) /\ CallStep("get") /\ CMGet(ns, k, TRUE, TRUE, TRUE))
             => /\ ret'.data = files[makeKey(ns, k)].data
                /\ ret'.cached
                /\ MemGetHit(cache', makeKey(ns, k), now)]_vars

\* whole seconds from t0 to now
SecondsSince(t0) == FloorDiv(now - t0, 1000)

\* C15: for every hit of CacheManager.get, from the memory tier or from the
\* persistent tier, ageSeconds is the whole seconds elapsed since the value
\* was first written, whatever reads or promotion the entry has seen.
C15_AgeSinceWritten ==
    [][(CallStep("get") /\ ret'.cached)
          => IF hits' = hits + 1
             THEN /\ ret'.key \in DOMAIN hist.origin
                  /\ ret'.num = SecondsSince(hist.origin[ret'.key])
             ELSE ret'.num = SecondsSince(files[ret'.key].createdAt)]_vars

\* C16: when the file of a key holds unparseable content, FileCache.get (the
\* file system calls succeeding) returns null and the file is gone afterwards.
C16_CorruptRemoved ==
    [][\A k \in TierKeys :
          (/\ k \in DOMAIN files
           /\ files[k].kind = "corrupt"
           /\ ret'.op = "file.get"
           /\ FileGet(k, TRUE, TRUE, TRUE))
             => (ret'.data = null /\ k \notin DOMAIN files')]_vars

\* C17: no I/O failure of the persistent tier during a read (cache directory
\* that cannot be created, unreadable file, failed delete of an expired record)
\* makes FileCache.get or CacheManager.get raise.
C17_ReadNeverRaises == ~(ret.op \in {"file.get", "get"} /\ ret.threw)

\* C18: when the persistent write fails during CacheManager.set of a durable
\* namespace (the directory cannot be created or the file cannot be written),
\* set and getOrFetch complete without raising, the memory tier holds the
\* value, and getOrFetch returns the fetched value.
Stored(ck) == MapHas(cache, ck) /\ MapGet(cache, ck).data = ret.data
C18_WriteFailureAbsorbed ==
    /\ ret.op = "set" => ~ret.threw
    /\ (ret.op = "getOrFetch" /\ ret.fetched /\ ret.data # FetchError)
          => (~ret.threw /\ Stored(ret.key))

(***************************************************************************)
(* The CacheManager over namespaces of both platforms, with a healthy file *)
(* system and a clock that stands still                                    *)
(***************************************************************************)
AllNamespaces ==
    {Namespace("tradera", "search"), Namespace("tradera", "item"),
     Namespace("tradera", "feedback"), Namespace("tradera", "categories"),
     Namespace("tradera", "counties"), Namespace("blocket", "search"),
     Namespace("blocket", "ad"), Namespace("blocket", "categories")}
\* the namespaces written and read: of each platform, one whose type names a
\* key of CacheTTL and one whose type does not
NsCases ==
    {Namespace("tradera", "item"), Namespace("tradera", "categories"),
     Namespace("blocket", "ad"), Namespace("blocket", "categories")}
NsKeys == {"k"}
NsValue == "v1"
NsTtls == {undefined}

NextNamespaces ==
    \/ \E ns \in NsCases, k \in NsKeys, ttl \in NsTtls : CMSet(ns, k, NsValue, ttl, TRUE, "ok")
    \/ \E ns \in NsCases, k \in NsKeys : CMGet(ns, k, TRUE, TRUE, TRUE)
    \/ \E ns \in NsCases, k \in NsKeys :
          GetOrFetch(ns, k, NsValue, undefined, TRUE, TRUE, TRUE, "ok")
    \/ \E ns \in NsCases : CMClearNs(ns)
    \/ CMClear(TRUE, TRUE)
    \/ Restart

SpecNamespaces == Init /\ [][NextNamespaces]_vars

\* C19: the persistent tier holds records only for keys of Tradera namespaces:
\* CacheManager.set always writes the memory tier, and writes the persistent
\* tier if and only if the namespace is a Tradera one.
SetStep(ns, k, ttl) == ret'.op = "none" /\ CMSet(ns, k, NsValue, ttl, TRUE, "ok")
C19_OnlyTraderaOnDisk ==
    /\ [](\A ns \in NsCases, k \in NsKeys :
             makeKey(ns, k) \in DOMAIN files => ns.platform = "tradera")
    /\ [][\A ns \in NsCases, k \in NsKeys, ttl \in NsTtls :
             SetStep(ns, k, ttl) =>
               /\ MapHas(cache', makeKey(ns, k))
               /\ MapGet(cache', makeKey(ns, k)).data = NsValue
               /\ IF ns.platform = "tradera"
                  THEN /\ makeKey(ns, k) \in DOMAIN files'
                       /\ files'[makeKey(ns, k)].data = NsValue
                       /\ files'[makeKey(ns, k)].createdAt = now
                  ELSE files' = files]_vars
C19_Witness ==
    /\ MapHas(cache, makeKey(Namespace("blocket", "ad"), "k"))
    /\ makeKey(Namespace("blocket", "ad"), "k") \notin DOMAIN files
    /\ makeKey(Namespace("tradera", "item"), "k") \in DOMAIN files
    /\ ret.op = "none" /\ hist.written # <<>>

\* C20: for each cache namespace, the TTL CacheManager applies when set is
\* called without an override, and when an entry is promoted from the
\* persistent tier, is the value CacheTTL defines for that namespace (Tradera:
\* search results 30 min, item details 15 min, feedback 1 h, categories 24 h,
\* counties 7 days; Blocket: search 5 min, ad details 10 min, categories 1 h).
TableKey(type) ==
    CASE type = "search" -> "searchResults"
      [] type = "item" -> "itemDetails"
      [] type = "feedback" -> "feedbackSummary"
      [] type = "ad" -> "adDetails"
      [] OTHER -> type
TableTtl(ns) == CacheTTL[ns.platform][TableKey(ns.type)]
PromoteStep(ns, k) ==
    /\ ret'.op = "get" /\ ret'.cached /\ hits' = hits
    /\ CMGet(ns, k, TRUE, TRUE, TRUE)
C20_TtlFromTable ==
    [][\A ns \in NsCases, k \in NsKeys :
          (SetStep(ns, k, undefined) \/ PromoteStep(ns, k))
             => MapGet(cache', makeKey(ns, k)).expiresAt = now + TableTtl(ns)]_vars

(***************************************************************************)
(* The CacheManager called with namespaces CacheTTL does not know: an      *)
(* unknown type of a known platform, and an unknown platform               *)
(***************************************************************************)
UnknownNamespaces == {Namespace("tradera", "seller"), Namespace("ebay", "search")}

NextUnknown ==
    \/ \E ns \in UnknownNamespaces, k \in NsKeys, ttl \in CacheTtls :
          CMSet(ns, k, NsValue, ttl, TRUE, "ok")
    \/ \E ns \in UnknownNamespaces, k \in NsKeys : CMGet(ns, k, TRUE, TRUE, TRUE)
    \/ Restart
    \/ MemTickStep

SpecUnknown == Init /\ [][NextUnknown]_vars

\* C21: CacheManager.set and CacheManager.get called with a namespace the TTL
\* table does not know (unknown platform or unknown type) complete without
\* raising and use the default TTL of 5 minutes.
C21_UnknownNamespaceDefault ==
    [][\A ns \in UnknownNamespaces, k \in NsKeys :
          /\ (ret'.op \in {"set", "get"} /\ ret'.key = makeKey(ns, k)) => ~ret'.threw
          /\ SetStep(ns, k, undefined)
                => MapGet(cache', makeKey(ns, k)).expiresAt = now + 5 * 60 * 1000]_vars

\* C22: CacheManager.clear(namespace) removes every memory entry of that
\* namespace and leaves unchanged the memory entries of the other namespaces
\* and all persistent records; clear() without a namespace leaves both tiers
\* empty.
OfNamespace(ns) == {makeKey(ns, k) : k \in NsKeys}
C22_ClearFrame ==
    [][/\ \A ns \in NsCases :
             (ret'.op = "clear" /\ ret'.key = NsName(ns)) =>
                /\ cache' = SelectSeq(cache, LAMBDA e : e.key \notin OfNamespace(ns))
                /\ files' = files
       /\ (ret'.op = "clear" /\ ret'.key = "") => (cache' = <<>> /\ files' = <<>>)]_vars
C22_Witness ==
    /\ ret.op = "clear" /\ ret.key = "tradera:item"
    /\ ~MapHas(cache, "tradera:item:k")
    /\ MapHas(cache, "tradera:categories:k")
    /\ "tradera:item:k" \in DOMAIN files
    /\ <<"tradera:item:k", NsValue>> \in DOMAIN hist.written

(***************************************************************************)
(* CacheManager calls running concurrently: each call is cut at its awaits *)
(* (file.get, fetchFn, file.set), and the awaited operations complete in   *)
(* any order.  The file system calls succeed; two writeFile calls on one   *)
(* path that overlap may leave a file that does not parse.                 *)
(***************************************************************************)
ConcNamespace == Namespace("tradera", "search")
ConcKeys == {"k"}
ConcValues == {"v1", "v2"}

Call(op, stage, ck, v, ttl) == [op |-> op, stage |-> stage, key |-> ck, val |-> v, ttl |-> ttl]
Writing(ck) == {t \in BagToSet(Pending) : t.stage = "write" /\ t.key = ck}
ConcUnchanged == UNCHANGED <<now, budget, requests, transports>>

\* `cached.data !== null`
IsHit_Always(data) == TRUE
IsHit(data) == data # null

\* memory.set, then file.set up to its writeFile
StoreStep(op, ck, v, customTtl) ==
    \E ttl \in {Coalesce(customTtl, getTtl(ConcNamespace))} :
        /\ cache' = MemSetMap(cache, ck, v, ttl, now)
        /\ tasks' = Join(Pending, Call(op, "write", ck, v, ttl))
        /\ hist' = NoteSet(hist, [wrote |-> TRUE, ttl |-> ttl, cache |-> cache'], ck, v, now)

\* set() is called
SetCall(key, v, customTtl) ==
    /\ BagCardinality(Pending) < MaxTasks
    /\ StoreStep("set", makeKey(ConcNamespace, key), v, customTtl)
    /\ ret' = NoRet
    /\ UNCHANGED <<hits, misses, files, initialized>>
    /\ ConcUnchanged

\* a writeFile completes: file.set, set and, for getOrFetch, the call return
WriteDone(task, write) ==
    /\ task.stage = "write"
    /\ write = "partial" => Writing(task.key) # {task}
    /\ files' = FileSetFiles(files, task.key, task.val, task.ttl, now, write)
    /\ initialized' = TRUE
    /\ tasks' = Leave(Pending, task)
    /\ ret' = IF task.op = "getOrFetch"
              THEN RetAll("getOrFetch", task.key, task.val, undefined, FALSE, FALSE, TRUE, TRUE)
              ELSE Ret("set", task.key, null, 0)
    /\ UNCHANGED <<cache, hits, misses, hist>>
    /\ ConcUnchanged

\* get() or getOrFetch() is called: memory.get, and on a miss file.get begins
LookupCall(op, key) ==
    \E ck \in {makeKey(ConcNamespace, key)} :
        /\ BagCardinality(Pending) < MaxTasks
        /\ CMCount(MemGetHit(cache, ck, now))
        /\ cache' = MemGetMap(cache, ck, now)
        /\ IF MemGetValue(cache, ck, now) # null
           THEN /\ ret' = RetAll(op, ck, MemGetValue(cache, ck, now),
                                 MemGetAge(cache', ck, now), FALSE, TRUE, FALSE, TRUE)
                /\ UNCHANGED tasks
           ELSE /\ ret' = NoRet
                /\ tasks' = Join(Pending, Call(op, "read", ck, null, undefined))
        /\ hist' = [hist EXCEPT !.origin = KeepLog(@, MapKeys(cache'))]
        /\ UNCHANGED <<files, initialized>>
        /\ ConcUnchanged

\* file.get completes: promotion on a hit; on a miss get returns and
\* getOrFetch calls fetchFn
ReadDone(task) ==
    /\ task.stage = "read"
    /\ \E fileData \in {FileGetValue(files, task.key, now, TRUE)} :
          /\ files' = FileGetFiles(files, task.key, now, TRUE, TRUE)
          /\ initialized' = TRUE
          /\ IF fileData # null
             THEN /\ cache' = MemSetMap(cache, task.key, fileData, getTtl(ConcNamespace), now)
                  /\ hist' = [hist EXCEPT !.origin =
                                PutLog(@, MapKeys(cache'), task.key, files[task.key].createdAt)]
             ELSE UNCHANGED <<cache, hist>>
          /\ IF task.op = "getOrFetch" /\ ~IsHit(fileData)
             THEN /\ tasks' = Join(Leave(Pending, task),
                                   Call(task.op, "fetch", task.key, null, undefined))
                  /\ ret' = NoRet
             ELSE /\ tasks' = Leave(Pending, task)
                  /\ ret' = RetAll(task.op, task.key, fileData,
                                   FileGetAge(files', task.key, now, TRUE),
                                   FALSE, fileData # null, FALSE, TRUE)
    /\ UNCHANGED <<hits, misses>>
    /\ ConcUnchanged

\* fetchFn resolves with f: set() begins
FetchDone(task, f) ==
    /\ task.stage = "fetch"
    /\ \E ttl \in {getTtl(ConcNamespace)} :
          /\ cache' = MemSetMap(cache, task.key, f, ttl, now)
          /\ tasks' = Join(Leave(Pending, task), Call(task.op, "write", task.key, f, ttl))
          /\ hist' = NoteSet(hist, [wrote |-> TRUE, ttl |-> ttl, cache |-> cache'],
                             task.key, f, now)
    /\ ret' = NoRet
    /\ UNCHANGED <<hits, misses, files, initialized>>
    /\ ConcUnchanged

NextConcurrent ==
    \/ \E k \in ConcKeys, v \in ConcValues : SetCall(k, v, undefined)
    \/ \E task \in BagToSet(Pending), w \in {"ok", "partial"} : WriteDone(task, w)
    \/ \E k \in ConcKeys, op \in {"get", "getOrFetch"} : LookupCall(op, k)
    \/ \E task \in BagToSet(Pending) : ReadDone(task)
    \/ \E task \in BagToSet(Pending), f \in ConcValues : FetchDone(task, f)
    \/ CMClearNs(ConcNamespace)

SpecConcurrent == Init /\ [][NextConcurrent]_vars

\* C23: after two concurrent CacheManager.set calls to the same durable key
\* have both completed, the memory tier and the persistent tier hold the same
\* one of the two written values.
C23_TiersAgree ==
    \A k \in ConcKeys :
       (/\ Pending = EmptyBag
        /\ MapHas(cache, makeKey(ConcNamespace, k))
        /\ makeKey(ConcNamespace, k) \in DOMAIN files)
       => /\ files[makeKey(ConcNamespace, k)].kind = "entry"
          /\ files[makeKey(ConcNamespace, k)].data = MapGet(cache, makeKey(ConcNamespace, k)).data

\* C24: getOrFetch gives no single-flight guarantee: two concurrent calls for
\* the same absent key may both invoke fetchFn (C24_Witness), and in every
\* interleaving each caller receives a value: one served from the cache, or
\* the one its own fetchFn returned.
Fetching(ck) == {t \in BagToSet(Pending) : t.stage = "fetch" /\ t.key = ck}
Fetches(ck) == BagCardinality([t \in Fetching(ck) |-> Pending[t]])
C24_EachCallerServed ==
    [][ret'.op = "getOrFetch" =>
          /\ ~ret'.threw
          /\ ret'.data \in ConcValues
          /\ ret'.cached # ret'.fetched
          /\ ret'.cached => <<ret'.key, ret'.data>> \in DOMAIN hist.written
          /\ ret'.fetched =>
                \E t \in Writing(ret'.key) : t.op = "getOrFetch" /\ t.val = ret'.data]_vars
C24_Witness ==
    \E k \in ConcKeys :
       /\ Fetches(makeKey(ConcNamespace, k)) = 2
       /\ ~MapHas(cache, makeKey(ConcNamespace, k))
       /\ makeKey(ConcNamespace, k) \notin DOMAIN files

\* C25: in every reachable state of the Tradera budget,
\* remaining = dailyLimit - used.
C25_RemainingIsLimitMinusUsed == budget.remaining = budget.dailyLimit - budget.used
C25_Witness ==
    /\ budget.used > 0
    /\ budget.remaining < budget.dailyLimit
    /\ budget.resetTime > getNextResetTime(0)

\* C26: within one reset epoch used never decreases, whatever the
\* interleaving of concurrent Tradera operations; it goes back to 0 only
\* through a reset performed after resetTime.
C26_UsedMonotoneInEpoch ==
    [][budget'.used < budget.used
          => (now > budget.resetTime /\ budget'.used <= 1
              /\ budget'.resetTime > budget.resetTime)]_vars
C26_Witness ==
    /\ ret.op = "canMakeApiCall"
    /\ ret.num = 1
    /\ budget.used = 0
    /\ budget.resetTime > getNextResetTime(0)

\* C27: no budget update is lost: each call recorded by one of the
\* concurrently running Tradera operations raises used by exactly one, and no
\* other step changes used except a due reset, so N recorded calls within one
\* epoch raise used by exactly N.
UsedInEpoch == IF now > budget.resetTime THEN 0 ELSE budget.used
C27_NoLostUpdate ==
    [][/\ RecordStep => budget'.used = UsedInEpoch + 1
       /\ ~RecordStep => budget'.used \in {budget.used, UsedInEpoch}]_vars
C27_Witness ==
    /\ budget.used = 2
    /\ hist.dispatched >= 2
    /\ ret.op = "getItem" /\ ret.fetched /\ ~ret.threw
    /\ \E task \in BagToSet(Pending) : task.stage = "sent"

\* C28: after every operation that touches the budget (getBudget,
\* canMakeApiCall, recordApiCall) at time now, resetTime is strictly greater
\* than now, also when now equals the previous resetTime exactly.
BudgetStep ==
    \/ ret'.op = "getBudget" /\ GetBudget
    \/ ret'.op = "canMakeApiCall" /\ CanMakeApiCall
    \/ RecordStep
C28_ResetTimeInFuture == [][BudgetStep => budget'.resetTime > now']_vars

(***************************************************************************)
(* A caller of the budget reads.  getBudget returns `{ ...this.budget }`:  *)
(* a new object with the numbers copied and with resetTime referring to    *)
(* the tracker's own Date object.  ret.num is the used count of the        *)
(* returned object; while ret.op is "getBudget" the caller holds it and no *)
(* reset has replaced the Date it refers to.                               *)
(***************************************************************************)
\* the tracker after some calls of the first epoch have been recorded
InitSnapshot ==
    /\ now = 0
    /\ cache = <<>>
    /\ hits = 0
    /\ misses = 0
    /\ files = <<>>
    /\ initialized = FALSE
    /\ \E used \in 0..dailyLimit :
          /\ budget = [InitBudget(0) EXCEPT !.used = used, !.remaining = dailyLimit - used]
          /\ hist = [NoHist EXCEPT !.dispatched = used]
    /\ requests = <<>>
    /\ tasks = <<>>
    /\ transports = <<>>
    /\ ret = NoRet

SnapshotUnchanged ==
    UNCHANGED <<now, cache, hits, misses, files, initialized, requests, tasks,
                transports, hist>>

\* the caller assigns a property of the returned object: snapshot.used = v
SnapshotAssign(v) ==
    /\ ret.op = "getBudget"
    /\ ret' = [ret EXCEPT !.num = v]
    /\ UNCHANGED budget
    /\ SnapshotUnchanged

\* the caller changes the Date of the returned object in place:
\* snapshot.resetTime.setTime(t)
SnapshotSetTime(t) ==
    /\ ret.op = "getBudget"
    /\ budget' = [budget EXCEPT !.resetTime = t]
    /\ UNCHANGED ret
    /\ SnapshotUnchanged

SnapshotTimes == {0, DAY, 3 * DAY}
SnapshotTick == DAY \div 2
SnapshotTickStep == Advance(SnapshotTick, 2 * TraMaxTicks * SnapshotTick)

NextSnapshot ==
    \/ GetBudget
    \/ CanMakeApiCall
    \/ \E v \in 0..dailyLimit : SnapshotAssign(v)
    \/ \E t \in SnapshotTimes : SnapshotSetTime(t)
    \/ SnapshotTickStep

SpecSnapshot == InitSnapshot /\ [][NextSnapshot]_vars

\* C29: getBudget and canMakeApiCall change used, remaining and resetTime only
\* by performing a due reset and leave the budget unchanged when none is due;
\* changing the object getBudget returned does not change the tracker's state.
ReadStep == (ret'.op = "getBudget" /\ GetBudget) \/ (ret'.op = "canMakeApiCall" /\ CanMakeApiCall)
C29_ReadsOnlyReset ==
    [][/\ ReadStep => budget' = IF now > budget.resetTime
                                THEN [budget EXCEPT !.used = 0, !.remaining = budget.dailyLimit,
                                                    !.resetTime = getNextResetTime(now)]
                                ELSE budget
       /\ (~ReadStep /\ now' = now) => budget' = budget]_vars

(***************************************************************************)
(* One RateLimiter with concurrent throttle() callers, whose capacity is   *)
(* read with canMakeRequest() and getTimeUntilNextRequest()                *)
(***************************************************************************)
WaitMaxTicks == 5

\* canMakeRequest() and getTimeUntilNextRequest(): both clean up first
LimCanMakeRequest ==
    /\ requests' = cleanupOldRequests(requests, now)
    /\ ret' = Ret("canMakeRequest", "",
                  IF canMakeRequest(requests, now) THEN "true" ELSE "false", 0)
    /\ UNCHANGED <<now, tasks, hist>>
    /\ LimUnchanged

LimGetTimeUntilNextRequest ==
    /\ requests' = cleanupOldRequests(requests, now)
    /\ ret' = Ret("getTimeUntilNextRequest", "", null, getTimeUntilNextRequest(requests, now))
    /\ UNCHANGED <<now, tasks, hist>>
    /\ LimUnchanged

LimGetRemainingRequests ==
    /\ requests' = cleanupOldRequests(requests, now)
    /\ ret' = Ret("getRemainingRequests", "", null, getRemainingRequests(requests, now))
    /\ UNCHANGED <<now, tasks, hist>>
    /\ LimUnchanged

WaitTickStep == Advance(LimTick, LimStart + WaitMaxTicks * LimTick)

NextWait ==
    \/ Throttle
    \/ \E i \in 1..Len(tasks) : ThrottleWake(i)
    \/ LimCanMakeRequest
    \/ LimGetTimeUntilNextRequest
    \/ LimGetRemainingRequests
    \/ LimGetStats
    \/ WaitTickStep

SpecWait == InitLimiter /\ [][NextWait]_vars

\* C30: after maxRequests calls have been recorded within windowMs,
\* canMakeRequest() is false and getTimeUntilNextRequest() is greater than 0;
\* while no further call is recorded the wait never increases as time passes,
\* and it is 0 exactly when canMakeRequest() is true.
Exhausted == Len(cleanupOldRequests(requests, now)) >= maxRequests
C30_WaitShrinks ==
    /\ [](/\ Exhausted => (~canMakeRequest(requests, now)
                           /\ getTimeUntilNextRequest(requests, now) > 0)
          /\ getTimeUntilNextRequest(requests, now) = 0 <=> canMakeRequest(requests, now))
    /\ [][(Exhausted /\ hist'.calls = hist.calls)
             => getTimeUntilNextRequest(requests', now')
                  <= getTimeUntilNextRequest(requests, now)]_vars

\* C31: every RateLimiter query (canMakeRequest, getRemainingRequests,
\* getTimeUntilNextRequest, getStats) counts only timestamps newer than
\* now - windowMs, and old timestamps are removed only as part of such a
\* query (throttle() begins with one), never by recordRequest or by a timer.
LimQueries == {"canMakeRequest", "getRemainingRequests", "getTimeUntilNextRequest", "getStats"}
FreshAt == {i \in 1..Len(requests) : requests[i] > now - windowMs}
FreshCount == Cardinality(FreshAt)
OldestFresh == CHOOSE t \in {requests[i] : i \in FreshAt} :
                  \A i \in FreshAt : t <= requests[i]
Times(rs) == {rs[i] : i \in 1..Len(rs)}
\* throttle() is called (its timer is not the step)
ThrottleCalled ==
    /\ Len(tasks') >= Len(tasks)
    /\ hist'.calls # hist.calls \/ tasks' # tasks
QueryStep(op) == ret'.op = op /\ now' = now
ThrottleFire(i) ==
    /\ tasks[i].op = "throttle"
    /\ now' = Max(now, tasks[i].wake)
    /\ requests' = recordRequest(requests, now')
    /\ hist' = [hist EXCEPT !.calls = Append(@, now')]
    /\ tasks' = RemoveAt(tasks, i)
    /\ ret' = NoRet
    /\ LimUnchanged

TimerFires == \E i \in 1..Len(tasks) : ThrottleFire(i)

NextThrottle ==
    \/ Throttle
    \/ TimerFires
    \/ LimTickStep

SpecThrottle == InitLimiter /\ [][NextThrottle]_vars /\ WF_vars(TimerFires)

\* C32: every throttle() call eventually records its request and returns,
\* after suspending for at most windowMs, under any number of concurrent
\* throttle() callers.
ThrottleCalls == Len(hist.calls) + Len(tasks)
C32_ThrottleReturns ==
    /\ [][Len(tasks') > Len(tasks) =>
             /\ tasks'[Len(tasks')].wake > now
             /\ tasks'[Len(tasks')].wake <= now + windowMs]_vars
    /\ \A n \in 1..MaxCalls : (ThrottleCalls >= n) ~> (Len(hist.calls) >= n)
C32_Witness ==
    /\ tasks = <<>>
    /\ Len(hist.calls) > maxRequests
    /\ \E i \in 1..Len(hist.calls) : hist.calls[i] >= LimStart + windowMs

(***************************************************************************)
(* The Tradera operations beside a RateLimiter in use by the Blocket       *)
(* client                                                                  *)
(***************************************************************************)
DeniedOps == {"search", "getItem"}

NextDenied ==
    \/ \E op \in DeniedOps : TraCall(op, FALSE)
    \/ \E task \in BagToSet(Pending) : TraSend(task)
    \/ \E task \in BagToSet(Pending), response \in {"ok"} : TraRespond(task, response)
    \/ \E key \in ClientKeys : BloSearch(key)
    \/ \E task \in BagToSet(Pending) : BloThrottle(task)
    \/ \E task \in BagToSet(Pending) : BloWake(task)
    \/ \E task \in BagToSet(Pending), response \in {"ok"} : BloRespond(task, response)
    \/ CMClear(TRUE, TRUE)

SpecDenied == InitLimiter /\ [][NextDenied]_vars

\* the budget check of a Tradera operation would find nothing remaining
BudgetExhausted == checkBudgetReset(budget, now).remaining <= 0

\* a Tradera operation that missed the cache runs its budget check
MissStep(task) == task.op \in TraderaOps /\ task.stage = "miss" /\ TraSend(task)

\* the step belongs to a Tradera operation: its call, its budget check or the
\* arrival of its response
TraderaStep ==
    \/ \E op \in TraderaOps, forceRefresh \in BOOLEAN : TraCall(op, forceRefresh)
    \/ \E task \in BagToSet(Pending) : TraSend(task)
    \/ \E task \in BagToSet(Pending), response \in Responses : TraRespond(task, response)

\* C33: a Tradera operation that misses the cache while the budget is
\* exhausted completes in that step: it hands its outcome to the caller,
\* sends no call out, leaves nothing waiting and lets no time pass; and no
\* step of a Tradera operation records a request with the RateLimiter.
C33_DeniedAtOnce ==
    /\ [][\A task \in BagToSet(Pending) :
            (BudgetExhausted /\ MissStep(task)) =>
                /\ tasks' = Leave(Pending, task)
                /\ SentIn(tasks') = SentIn(tasks)
                /\ hist'.dispatched = Dispatched
                /\ ret'.op = task.op
                /\ ~ret'.fetched
                /\ now' = now]_vars
    /\ [][requests' # requests => ~TraderaStep]_vars

C33_Witness ==
    /\ ret.op \in TraderaOps
    /\ ~ret.cached
    /\ ~ret.fetched
    /\ budget.remaining <= 0
    /\ requests # <<>>

\* what the caller of an operation has in hand: the value returned or the
\* error thrown
Outcome(r) == [threw |-> r.threw, data |-> r.data]

\* the operation just ended was denied for want of budget
DenialSeen == ret.op \in TraderaOps /\ ~ret.cached /\ ~ret.fetched

\* what the operation returns when the listing does not exist
NotFound(op) == TraRet(op, null, FALSE, FALSE, TRUE)

\* C34: the outcome of a Tradera operation denied for quota exhaustion
\* differs from the outcome of a failed fetch and from that of a listing
\* that was not found.
C34_DenialDistinct ==
    DenialSeen => /\ Outcome(ret) # Outcome(Failed(ret.op))
                  /\ Outcome(ret) # Outcome(NotFound(ret.op))

\* C35: whatever becomes of a FileCache.set, every file of the cache
\* directory holds a complete record: the one stored before, or the new one;
\* no file is left holding part of a record.
C35_NoPartialRecord ==
    \A k \in DOMAIN files : files[k].kind = "entry"

(***************************************************************************)
(* A MemoryCache that is written and left to age                            *)
(***************************************************************************)
NextOverwrite ==
    \/ \E k \in MemKeys, v \in MemValues, ttl \in MemTtls : MemSet(k, v, ttl)
    \/ \E k \in MemKeys : MemDelete(k)
    \/ MemTickStep

SpecOverwrite == Init /\ [][NextOverwrite]_vars

\* set(k, v, ttl) is called on a key that is stored, with the cache full
OverwriteAtCapacity(k, v, ttl) ==
    /\ MapHas(cache, k)
    /\ Len(cache) >= maxSize
    /\ MemSet(k, v, ttl)

\* C36: MemoryCache.set on a key already present, with the cache at
\* capacity, evicts nothing: the stored keys are the same before and after,
\* every other entry is unchanged, and the entry of the key holds the new
\* value, expiry and access time.
C36_OverwriteEvictsNothing ==
    [][\A k \in MemKeys, v \in MemValues, ttl \in MemTtls :
          OverwriteAtCapacity(k, v, ttl) =>
              /\ MapKeys(cache') = MapKeys(cache)
              /\ Len(cache') = Len(cache)
              /\ \A i \in 1..Len(cache) :
                    IF cache[i].key = k
                    THEN cache'[i] = Entry(k, v, now + Coalesce(ttl, MemDefaultTtl), now)
                    ELSE cache'[i] = cache[i]]_vars

C36_Witness ==
    /\ Len(cache) = maxSize
    /\ ret.op = "none"
    /\ \E i \in 1..(Len(cache) - 1) : cache[i].expiresAt > cache[Len(cache)].expiresAt

(***************************************************************************)
(* A MemoryCache whose counters are watched                                *)
(***************************************************************************)
CounterValues == {"v1"}

NextCounters ==
    \/ \E k \in MemKeys, v \in CounterValues, ttl \in MemTtls : MemSet(k, v, ttl)
    \/ \E k \in MemKeys : MemGet(k)
    \/ MemClear
    \/ MemTickStep

SpecCounters == Init /\ [][NextCounters]_vars

\* get(k) finds an entry that has not expired
Unexpired(k) == \E i \in 1..Len(cache) : cache[i].key = k /\ now <= cache[i].expiresAt

\* C37: every MemoryCache.get adds one to exactly one counter, the hit
\* counter when it returns an unexpired entry and the miss counter
\* otherwise; a counter decreases only in clear(), and clear() sets both to
\* zero.
C37_CountersPerEpoch ==
    /\ [][\A k \in MemKeys : MemGet(k) =>
            IF Unexpired(k)
            THEN hits' = hits + 1 /\ misses' = misses /\ ret'.data # null
            ELSE hits' = hits /\ misses' = misses + 1 /\ ret'.data = null]_vars
    /\ [][(hits' < hits \/ misses' < misses) => MemClear]_vars
    /\ [][MemClear => (hits' = 0 /\ misses' = 0)]_vars

C37_Witness ==
    /\ ret.op = "mem.get"
    /\ hits >= 1
    /\ misses >= 1

(***************************************************************************)
(* Both tiers swept by cleanup(); writes can stop part-way, the other      *)
(* file system calls succeed                                               *)
(***************************************************************************)
SweepKeys == {"A", "B"}
SweepValues == {"v1"}

NextSweep ==
    \/ \E k \in SweepKeys, v \in SweepValues, ttl \in MemTtls : MemSet(k, v, ttl)
    \/ MemCleanup
    \/ \E k \in SweepKeys, v \in SweepValues, ttl \in TierTtls, w \in {"ok", "partial"} :
          FileSet(k, v, ttl, TRUE, w)
    \/ FileCleanup(TRUE, TRUE)
    \/ MemTickStep

SpecSweep == Init /\ [][NextSweep]_vars

\* the entries cleanup() is to remove
MemExpired(e) == now > e.expiresAt
FileStale(f) == f.kind # "entry" \/ now > f.expiresAt

\* C38: after cleanup() on either tier no expired entry, and in the
\* persistent tier no corrupt record, remains; every unexpired entry is as
\* it was; and the number returned is the number of entries removed.
C38_CleanupSweeps ==
    /\ [][MemCleanup =>
            /\ \A j \in 1..Len(cache') : ~MemExpired(cache'[j])
            /\ \A i \in 1..Len(cache) :
                  ~MemExpired(cache[i]) => \E j \in 1..Len(cache') : cache'[j] = cache[i]
            /\ ret'.num = Cardinality({i \in 1..Len(cache) : MemExpired(cache[i])})
            /\ ret'.num = Len(cache) - Len(cache')]_vars
    /\ [][FileCleanup(TRUE, TRUE) =>
            /\ \A k \in DOMAIN files' : ~FileStale(files'[k])
            /\ \A k \in DOMAIN files :
                  ~FileStale(files[k]) => (k \in DOMAIN files' /\ files'[k] = files[k])
            /\ ret'.num = Cardinality({k \in DOMAIN files : FileStale(files[k])})
            /\ ret'.num = Cardinality(DOMAIN files) - Cardinality(DOMAIN files')]_vars

\* the sweep of the persistent tier removed a record and kept another
C38_Witness ==
    /\ ret.op = "file.cleanup"
    /\ ret.num >= 1
    /\ \E k \in DOMAIN files : files[k].createdAt < now
    /\ Len(cache) >= 1

(***************************************************************************)
(* HTTP sessions: the transports map, the /mcp endpoints and the sweep     *)
(***************************************************************************)
MaxSessions == 2
SessionMaxTicks == 4

SESSION_TIMEOUT_MS == 1800000      \* 30 * 60 * 1000
SweepInterval == 300000           \* 5 * 60 * 1000
SessionTick == 2 * SweepInterval

\* the values of the mcp-session-id header: absent, or an id
SessionIds == 1..MaxSessions
Headers == SessionIds \cup {undefined}

Session(t) == [lastActivity |-> t]
SessionPut(m, id, session) == [x \in (DOMAIN m) \cup {id} |-> IF x = id THEN session ELSE m[x]]
SessionDelete(m, id) == [x \in (DOMAIN m) \ {id} |-> m[x]]

HttpRet(op, id, status) == Ret(op, "", status, id)
SessionUnchanged ==
    UNCHANGED <<now, cache, hits, misses, files, initialized, budget, requests>>

\* `now - session.lastActivity > SESSION_TIMEOUT_MS`
SessionExpired_AtTimeout(session, t) == t - session.lastActivity >= SESSION_TIMEOUT_MS
SessionExpired(session, t) == t - session.lastActivity > SESSION_TIMEOUT_MS

\* the setInterval callback
SessionSweep ==
    LET expired == {id \in DOMAIN transports : SessionExpired(transports[id], now)}
    IN  /\ now > 0
        /\ now % SweepInterval = 0
        /\ transports' = [id \in (DOMAIN transports) \ expired |-> transports[id]]
        /\ hist' = [hist EXCEPT !.closed = @ \cup expired, !.removed = @ \cup expired]
        /\ ret' = Ret("sweep", "", null, Cardinality(expired))
        /\ UNCHANGED tasks
        /\ SessionUnchanged

\* POST /mcp with no session of that id, carrying an initialize request: the
\* transport generates an id and onsessioninitialized registers the session
PostInitialize(header) ==
    LET id == hist.issued + 1
    IN  /\ header = undefined \/ header \notin DOMAIN transports
        /\ hist.issued < MaxSessions
        /\ transports' = SessionPut(transports, id, Session(now))
        /\ hist' = [hist EXCEPT !.issued = id, !.handled = SessionPut(@, id, now)]
        /\ ret' = HttpRet("post", id, "200")
        /\ UNCHANGED tasks
        /\ SessionUnchanged

\* POST /mcp on a session of the map
Post(header) ==
    /\ header # undefined
    /\ header \in DOMAIN transports
    /\ transports' = [transports EXCEPT ![header].lastActivity = now]
    /\ hist' = [hist EXCEPT !.handled = SessionPut(@, header, now)]
    /\ ret' = HttpRet("post", header, "200")
    /\ UNCHANGED tasks
    /\ SessionUnchanged

\* GET /mcp
Get(header) ==
    /\ UNCHANGED tasks
    /\ SessionUnchanged
    /\ IF header = undefined
       THEN /\ ret' = HttpRet("get", 0, "400")
            /\ UNCHANGED <<transports, hist>>
       ELSE IF header \notin DOMAIN transports
       THEN /\ ret' = HttpRet("get", header, "404")
            /\ UNCHANGED <<transports, hist>>
       ELSE /\ transports' = [transports EXCEPT ![header].lastActivity = now]
            /\ hist' = [hist EXCEPT !.handled = SessionPut(@, header, now)]
            /\ ret' = HttpRet("get", header, "200")

\* DELETE /mcp up to the await of transport.close()
Closing(id) == [op |-> "delete", stage |-> "closing", id |-> id]

Delete(header) ==
    /\ BagCardinality(Pending) < MaxTasks
    /\ UNCHANGED transports
    /\ SessionUnchanged
    /\ IF header = undefined
       THEN /\ ret' = HttpRet("delete", 0, "400")
            /\ UNCHANGED <<tasks, hist>>
       ELSE IF header \notin DOMAIN transports
       THEN /\ ret' = HttpRet("delete", header, "204")
            /\ UNCHANGED <<tasks, hist>>
       ELSE /\ tasks' = Join(Pending, Closing(header))
            /\ hist' = [hist EXCEPT !.closed = @ \cup {header}]
            /\ UNCHANGED ret

\* DELETE /mcp after the await: transports.delete(sessionId) and the 204
DeleteDone(task) ==
    /\ task.op = "delete"
    /\ tasks' = Leave(Pending, task)
    /\ transports' = SessionDelete(transports, task.id)
    /\ hist' = [hist EXCEPT !.removed = @ \cup {task.id}]
    /\ ret' = HttpRet("delete", task.id, "204")
    /\ SessionUnchanged

SessionTickStep == Advance(SessionTick, SessionMaxTicks * SessionTick)

NextSessions ==
    \/ \E header \in Headers : PostInitialize(header)
    \/ \E header \in Headers : Post(header)
    \/ \E header \in Headers : Get(header)
    \/ \E header \in Headers : Delete(header)
    \/ \E task \in BagToSet(Pending) : DeleteDone(task)
    \/ SessionSweep
    \/ SessionTickStep

SpecSessions == Init /\ [][NextSessions]_vars

\* the sessions whose last POST or GET was taken up more than 30 minutes ago
Idle == {id \in DOMAIN transports : now - hist.handled[id] > 30 * 60 * 1000}

\* C39: the periodic sweep closes and removes exactly the sessions whose
\* last POST or GET is more than 30 minutes old and leaves the others as they
\* are; and a session removed by the sweep or by DELETE is not in the map
\* afterwards, so that a later GET naming it is answered 404.
C39_SweepRemovesIdleOnly ==
    /\ [][SessionSweep =>
            /\ (DOMAIN transports) \ (DOMAIN transports') = Idle
            /\ Idle \subseteq hist'.closed
            /\ \A id \in DOMAIN transports' : transports'[id] = transports[id]]_vars
    /\ [][\A header \in SessionIds :
            (header \in hist.removed /\ Get(header)) => ret'.data = "404"]_vars
    /\ [](DOMAIN transports \cap hist.removed = {})

\* the sweep has removed a session and kept one that was last active exactly
\* 30 minutes ago
C39_Witness ==
    /\ ret.op = "sweep"
    /\ ret.num >= 1
    /\ \E id \in DOMAIN transports : now - transports[id].lastActivity = SESSION_TIMEOUT_MS

====
